---- MODULE Spec2Model ----
(***************************************************************************)
(* Model of the cubbychat backend (backend/main.go): the background        *)
(* readiness task checkModelReady with its fetcher getAvailableModel and   *)
(* prober testModelGeneration, the per-connection handler handleWebSocket, *)
(* the stream relay streamOllamaResponse and the status endpoint           *)
(* getModelStatus.                                                         *)
(*                                                                         *)
(* Every write of a shared variable (modelStatus, modelReady,              *)
(* modelNeverReady, ollamaModel), every network call and every sleep of    *)
(* the background task is a step of its own, so that the handlers and the  *)
(* status endpoint can observe every intermediate state.                   *)
(***************************************************************************)
EXTENDS Naturals, Sequences, FiniteSets, TLC

\* ------------------------------------------------------------------ bounds

\* The outer retry ceiling of checkModelReady. The source sets 100
\* (main.go:494); the model runs the same loop with a small ceiling.
maxRetries == 2

\* The attempt ceiling of testModelGeneration. The source sets 100
\* (main.go:407); the model runs the same loop with a small ceiling.
maxTestRetries == 2

\* The longest upstream body (in lines) the relay specification enumerates.
MaxLines == 3

\* ------------------------------------------------------------ program data

\* The two message tables (main.go:223-248), cut to their first two entries
\* and written in ASCII.
waitingMessages ==
    << "Hold on! The AI is still having its morning coffee...",
       "The model is warming up its neural networks..." >>

noAIMessages ==
    << "Sorry, our AI took the day off. It's probably at the beach somewhere...",
       "The AI is unavailable. It's currently pursuing its dream of becoming a Broadway star." >>

\* Element set of a sequence.
Range(s) == { s[i] : i \in 1..Len(s) }

\* The connections that may be open at the same time.
Conns == { "c1", "c2" }

\* Inbound client messages.
Msgs == { "Hi" }

\* The one status code the code accepts (resp.StatusCode() != 200).
StatusOK == 200

VARIABLES
    \* shared readiness state (main.go:27-34)
    ollamaEnabled, ollamaModel, modelReady, modelStatus, modelNeverReady,
    \* checkModelReady / getAvailableModel / testModelGeneration
    bg,            \* position of the background task
    attempt,       \* checkModelReady's loop counter
    testAttempt,   \* testModelGeneration's loop counter
    model,         \* checkModelReady's local `model`
    fetched,       \* the model list of the last successful listing call
    fetchCalls,    \* listing calls issued so far
    retryDelays,   \* time.Sleep(retryDelay) calls so far
    probeTrace,    \* generation calls and sleeps of the current probe, in order
    probeCalls,    \* probe generation calls issued so far, over all cycles
    modelWrites,   \* assignments to ollamaModel so far
    \* handleWebSocket / streamOllamaResponse, per connection
    pc,            \* position of the handler: "none" is no open connection
    msg,           \* the inbound message being handled
    statusAtRead,  \* the terminal tag, if any, modelStatus had when it was read
    branch,        \* the branch taken for it: "noai", "wait" or "relay"
    out,           \* the conn.WriteMessage calls made for it, in order
    saved,         \* the saveMessage calls made for it, in order
    upstream,      \* the lines of the streaming response body
    pos,           \* how many of them the scanner has read
    cur,           \* the relay loop's `result`
    fullResponse,  \* the relay's `fullResponse`
    reqModel,      \* the Model of the relay's request
    respCode,      \* the status code of the relay's response (0: none)
    scanErr,       \* whether scanner.Err() is set
    \* getModelStatus
    spc, snap

bgVars == << bg, attempt, testAttempt, model, fetched, fetchCalls,
             retryDelays, probeTrace, probeCalls, modelWrites >>
sharedVars == << ollamaEnabled, ollamaModel, modelReady, modelStatus,
                 modelNeverReady >>
connVars == << pc, msg, statusAtRead, branch, out, saved,
               upstream, pos, cur, fullResponse, reqModel, respCode, scanErr >>
statVars == << spc, snap >>
vars == << sharedVars, bgVars, connVars, statVars >>

\* ------------------------------------------------------- getAvailableModel

\* Model lists the listing endpoint may return (first entry differs from the
\* last one in the two-element list).
ModelLists == { <<>>, << "m1" >>, << "m2", "m1" >> }

\* Responses of GET /api/tags: a transport error, a non-200 status, an
\* unparsable body, or a parsed model list.
FetchResps ==
    { [err |-> TRUE, code |-> 0, parses |-> FALSE, models |-> <<>>],
      [err |-> FALSE, code |-> 500, parses |-> TRUE, models |-> <<>>],
      [err |-> FALSE, code |-> StatusOK, parses |-> FALSE, models |-> <<>>] }
    \cup { [err |-> FALSE, code |-> StatusOK, parses |-> TRUE, models |-> l] :
             l \in ModelLists }

\* getAvailableModel picking the last entry instead of the first.
GetAvailableModelLast(resp) ==
    IF resp.err THEN [ok |-> FALSE, status |-> "error_connecting", name |-> ""]
    ELSE IF resp.code # StatusOK
         THEN [ok |-> FALSE, status |-> "error_api", name |-> ""]
    ELSE IF ~resp.parses
         THEN [ok |-> FALSE, status |-> "error_parsing", name |-> ""]
    ELSE IF Len(resp.models) = 0
         THEN [ok |-> FALSE, status |-> "no_models", name |-> ""]
    ELSE [ok |-> TRUE, status |-> "model_found",
          name |-> resp.models[Len(resp.models)]]

\* What getAvailableModel makes of the listing response: the status tag it
\* writes and the name (or error) it returns.
GetAvailableModel(resp) ==
    IF resp.err THEN [ok |-> FALSE, status |-> "error_connecting", name |-> ""]
    ELSE IF resp.code # StatusOK
         THEN [ok |-> FALSE, status |-> "error_api", name |-> ""]
    ELSE IF ~resp.parses
         THEN [ok |-> FALSE, status |-> "error_parsing", name |-> ""]
    ELSE IF Len(resp.models) = 0
         THEN [ok |-> FALSE, status |-> "no_models", name |-> ""]
    ELSE [ok |-> TRUE, status |-> "model_found", name |-> resp.models[1]]

\* ----------------------------------------------------- testModelGeneration

\* Responses of the non-streaming POST /api/generate of one probe attempt.
ProbeResps ==
    { [err |-> TRUE, code |-> 0, parses |-> FALSE, hasResponse |-> FALSE],
      [err |-> FALSE, code |-> 500, parses |-> TRUE, hasResponse |-> FALSE],
      [err |-> FALSE, code |-> StatusOK, parses |-> FALSE, hasResponse |-> FALSE],
      [err |-> FALSE, code |-> StatusOK, parses |-> TRUE, hasResponse |-> FALSE],
      [err |-> FALSE, code |-> StatusOK, parses |-> TRUE, hasResponse |-> TRUE] }

\* The outcome of one attempt, in the order the code tests for failures.
AttemptOutcome(resp) ==
    IF resp.err THEN "conn"
    ELSE IF resp.code # StatusOK THEN "status"
    ELSE IF ~resp.parses THEN "parse"
    ELSE IF ~resp.hasResponse THEN "nocontent"
    ELSE "ok"

FailureKinds == { "conn", "status", "parse", "nocontent" }

\* One tag for every kind of failure.
ErrorTagGeneric(kind) == "error_generation"

\* The status tag written when the last attempt fails with the given kind.
ErrorTag(kind) ==
    CASE kind = "conn" -> "error_generation"
      [] kind = "status" -> "error_generation"
      [] kind = "parse" -> "error_parsing_response"
      [] kind = "nocontent" -> "error_no_response"

ProbeErrorTags ==
    { "error_generation", "error_parsing_response", "error_no_response" }

\* A retry test that also lets the last attempt sleep and loop.
MoreAttemptsInclusive(n) == n <= maxTestRetries

\* `if testAttempt < maxTestRetries`: whether a failed attempt sleeps and
\* retries.
MoreAttempts(n) == n < maxTestRetries

\* --------------------------------------------------------- checkModelReady

\* fmt.Sprintf("retry_%d", attempt)
RetryTag(n) == "retry_" \o ToString(n)

TerminalTags == { "ready", "failed", "disabled" }

\* The tag if it is a terminal one, else "".
TerminalTag(status) == IF status \in TerminalTags THEN status ELSE ""

\* Falling through to the next loop iteration after success.
AfterReadyContinue == "next"

\* Where checkModelReady goes after modelReady.Store(true): it returns.
AfterReady == "done"

\* if !ollamaEnabled { modelStatus = "disabled" ... } else modelStatus = "starting"
BgStart ==
    /\ bg = "start"
    /\ IF ~ollamaEnabled
       THEN /\ modelStatus' = "disabled"
            /\ bg' = "storeNever"
       ELSE /\ modelStatus' = "starting"
            /\ bg' = "loop"
    /\ UNCHANGED << ollamaEnabled, ollamaModel, modelReady, modelNeverReady,
                    attempt, testAttempt, model, fetched, fetchCalls,
                    retryDelays, probeTrace >>
    /\ UNCHANGED << probeCalls, modelWrites >>
    /\ UNCHANGED << connVars, statVars >>

\* modelNeverReady.Store(true) without the return: the task goes on into
\* the retry loop.
BgStoreNeverNoReturn ==
    /\ bg = "storeNever"
    /\ modelNeverReady' = TRUE
    /\ bg' = "loop"
    /\ UNCHANGED << ollamaEnabled, ollamaModel, modelReady, modelStatus >>
    /\ UNCHANGED << attempt, testAttempt, model, fetched, fetchCalls,
                    retryDelays, probeTrace >>
    /\ UNCHANGED << probeCalls, modelWrites >>
    /\ UNCHANGED << connVars, statVars >>

\* modelNeverReady.Store(true); return
BgStoreNever ==
    /\ bg = "storeNever"
    /\ modelNeverReady' = TRUE
    /\ bg' = "done"
    /\ UNCHANGED << ollamaEnabled, ollamaModel, modelReady, modelStatus >>
    /\ UNCHANGED << attempt, testAttempt, model, fetched, fetchCalls,
                    retryDelays, probeTrace >>
    /\ UNCHANGED << probeCalls, modelWrites >>
    /\ UNCHANGED << connVars, statVars >>

\* A continue that leaves the cycle number as it is.
NextAttemptSame(n) == n

\* attempt++ of the for statement, reached by every continue.
NextAttempt(n) == n + 1

\* The retry branch taken in the first cycle too.
IsRetryAlways(n) == n >= 1

\* if attempt > 1 { modelStatus = "retry_<attempt>"; time.Sleep(retryDelay) }
IsRetry(n) == n > 1

\* The loop condition failing one cycle early.
LoopExhaustedEarly(n) == n >= maxRetries

\* for attempt := 1; attempt <= maxRetries; attempt++ : the condition fails.
LoopExhausted(n) == n > maxRetries

\* The head of the for loop: attempt <= maxRetries, and for attempt > 1 the
\* retry tag. probeTrace records one probe; it is emptied for the new cycle.
BgLoop ==
    /\ bg = "loop"
    /\ IF LoopExhausted(attempt)
       THEN /\ bg' = "fail"
            /\ UNCHANGED modelStatus
       ELSE IF IsRetry(attempt)
       THEN /\ modelStatus' = RetryTag(attempt)
            /\ bg' = "sleep"
       ELSE /\ bg' = "fetch"
            /\ UNCHANGED modelStatus
    /\ probeTrace' = <<>>
    /\ UNCHANGED << ollamaEnabled, ollamaModel, modelReady, modelNeverReady >>
    /\ UNCHANGED << attempt, testAttempt, model, fetched, fetchCalls,
                    retryDelays >>
    /\ UNCHANGED << probeCalls, modelWrites >>
    /\ UNCHANGED << connVars, statVars >>

\* The retry delay with modelNeverReady set for its duration and after.
BgRetrySleepStoresNever ==
    /\ bg = "sleep"
    /\ retryDelays' = retryDelays + 1
    /\ modelNeverReady' = TRUE
    /\ bg' = "fetch"
    /\ UNCHANGED << ollamaEnabled, ollamaModel, modelReady, modelStatus >>
    /\ UNCHANGED << attempt, testAttempt, model, fetched, fetchCalls,
                    probeTrace >>
    /\ UNCHANGED << probeCalls, modelWrites >>
    /\ UNCHANGED << connVars, statVars >>

\* time.Sleep(retryDelay)
BgRetrySleep ==
    /\ bg = "sleep"
    /\ retryDelays' = retryDelays + 1
    /\ bg' = "fetch"
    /\ UNCHANGED sharedVars
    /\ UNCHANGED << attempt, testAttempt, model, fetched, fetchCalls,
                    probeTrace >>
    /\ UNCHANGED << probeCalls, modelWrites >>
    /\ UNCHANGED << connVars, statVars >>

\* getAvailableModel: modelStatus = "checking_models"
BgFetchStart ==
    /\ bg = "fetch"
    /\ modelStatus' = "checking_models"
    /\ bg' = "fetchCall"
    /\ UNCHANGED << ollamaEnabled, ollamaModel, modelReady, modelNeverReady >>
    /\ UNCHANGED << attempt, testAttempt, model, fetched, fetchCalls,
                    retryDelays, probeTrace >>
    /\ UNCHANGED << probeCalls, modelWrites >>
    /\ UNCHANGED << connVars, statVars >>

\* getAvailableModel: the listing call and what follows from its response;
\* on error checkModelReady continues with the next attempt.
BgFetchCall ==
    /\ bg = "fetchCall"
    /\ \E resp \in FetchResps :
         LET r == GetAvailableModel(resp) IN
           /\ modelStatus' = r.status
           /\ fetchCalls' = fetchCalls + 1
           /\ IF r.ok
              THEN /\ model' = r.name
                   /\ fetched' = resp.models
                   /\ bg' = "setModel"
                   /\ UNCHANGED attempt
              ELSE /\ model' = ""
                   /\ attempt' = NextAttempt(attempt)
                   /\ bg' = "loop"
                   /\ UNCHANGED fetched
    /\ UNCHANGED << ollamaEnabled, ollamaModel, modelReady, modelNeverReady >>
    /\ UNCHANGED << testAttempt, retryDelays, probeTrace >>
    /\ UNCHANGED << probeCalls, modelWrites >>
    /\ UNCHANGED << connVars, statVars >>

\* ollamaModel = model with the ready flag stored at once, before the probe.
BgSetModelStoresReady ==
    /\ bg = "setModel"
    /\ ollamaModel' = model
    /\ modelWrites' = modelWrites + 1
    /\ modelReady' = TRUE
    /\ bg' = "testStart"
    /\ UNCHANGED << ollamaEnabled, modelStatus, modelNeverReady >>
    /\ UNCHANGED << attempt, testAttempt, model, fetched, fetchCalls,
                    retryDelays, probeTrace >>
    /\ UNCHANGED probeCalls
    /\ UNCHANGED << connVars, statVars >>

\* ollamaModel = model
BgSetModel ==
    /\ bg = "setModel"
    /\ ollamaModel' = model
    /\ modelWrites' = modelWrites + 1
    /\ bg' = "testStart"
    /\ UNCHANGED << ollamaEnabled, modelReady, modelStatus, modelNeverReady >>
    /\ UNCHANGED << attempt, testAttempt, model, fetched, fetchCalls,
                    retryDelays, probeTrace >>
    /\ UNCHANGED probeCalls
    /\ UNCHANGED << connVars, statVars >>

\* testModelGeneration: modelStatus = "testing_generation"; testAttempt := 1
BgTestStart ==
    /\ bg = "testStart"
    /\ modelStatus' = "testing_generation"
    /\ testAttempt' = 1
    /\ probeTrace' = <<>>
    /\ bg' = "probe"
    /\ UNCHANGED << ollamaEnabled, ollamaModel, modelReady, modelNeverReady >>
    /\ UNCHANGED << attempt, model, fetched, fetchCalls, retryDelays >>
    /\ UNCHANGED << probeCalls, modelWrites >>
    /\ UNCHANGED << connVars, statVars >>

\* testModelGeneration: one pass of the for loop up to its sleep, its return
\* or (with the attempts used up at the loop head) the fall-through at the
\* end of the function.
BgProbe ==
    /\ bg = "probe"
    /\ IF testAttempt > maxTestRetries
       THEN /\ modelStatus' = "error_generation"
            /\ attempt' = NextAttempt(attempt)
            /\ bg' = "loop"
            /\ UNCHANGED << probeTrace, probeCalls >>
       ELSE \E resp \in ProbeResps :
              LET kind == AttemptOutcome(resp) IN
                /\ probeTrace' = Append(probeTrace, kind)
                /\ probeCalls' = probeCalls + 1
                /\ IF kind = "ok"
                   THEN /\ bg' = "setReady"
                        /\ UNCHANGED << modelStatus, attempt >>
                   ELSE IF MoreAttempts(testAttempt)
                   THEN /\ bg' = "probeSleep"
                        /\ UNCHANGED << modelStatus, attempt >>
                   ELSE /\ modelStatus' = ErrorTag(kind)
                        /\ attempt' = NextAttempt(attempt)
                        /\ bg' = "loop"
    /\ UNCHANGED << ollamaEnabled, ollamaModel, modelReady, modelNeverReady >>
    /\ UNCHANGED << testAttempt, model, fetched, fetchCalls, retryDelays >>
    /\ UNCHANGED modelWrites
    /\ UNCHANGED << connVars, statVars >>

\* time.Sleep(2 * time.Second); continue
BgProbeSleep ==
    /\ bg = "probeSleep"
    /\ probeTrace' = Append(probeTrace, "sleep")
    /\ testAttempt' = testAttempt + 1
    /\ bg' = "probe"
    /\ UNCHANGED sharedVars
    /\ UNCHANGED << attempt, model, fetched, fetchCalls, retryDelays >>
    /\ UNCHANGED << probeCalls, modelWrites >>
    /\ UNCHANGED << connVars, statVars >>

\* modelStatus = "ready"
BgSetReady ==
    /\ bg = "setReady"
    /\ modelStatus' = "ready"
    /\ bg' = "storeReady"
    /\ UNCHANGED << ollamaEnabled, ollamaModel, modelReady, modelNeverReady >>
    /\ UNCHANGED << attempt, testAttempt, model, fetched, fetchCalls,
                    retryDelays, probeTrace >>
    /\ UNCHANGED << probeCalls, modelWrites >>
    /\ UNCHANGED << connVars, statVars >>

\* modelReady.Store(true); return
BgStoreReady ==
    /\ bg = "storeReady"
    /\ modelReady' = TRUE
    /\ IF AfterReady = "done"
       THEN /\ bg' = "done"
            /\ UNCHANGED attempt
       ELSE /\ bg' = "loop"
            /\ attempt' = NextAttempt(attempt)
    /\ UNCHANGED << ollamaEnabled, ollamaModel, modelStatus, modelNeverReady >>
    /\ UNCHANGED << testAttempt, model, fetched, fetchCalls, retryDelays,
                    probeTrace >>
    /\ UNCHANGED << probeCalls, modelWrites >>
    /\ UNCHANGED << connVars, statVars >>

\* The end of checkModelReady also raising the permanently-unavailable flag.
BgFailStoresNever ==
    /\ bg = "fail"
    /\ modelStatus' = "failed"
    /\ modelNeverReady' = TRUE
    /\ bg' = "done"
    /\ UNCHANGED << ollamaEnabled, ollamaModel, modelReady >>
    /\ UNCHANGED << attempt, testAttempt, model, fetched, fetchCalls,
                    retryDelays, probeTrace >>
    /\ UNCHANGED << probeCalls, modelWrites >>
    /\ UNCHANGED << connVars, statVars >>

\* The failure that also takes the model name back.
BgFailClearsModel ==
    /\ bg = "fail"
    /\ modelStatus' = "failed"
    /\ ollamaModel' = ""
    /\ bg' = "done"
    /\ UNCHANGED << ollamaEnabled, modelReady, modelNeverReady >>
    /\ UNCHANGED << attempt, testAttempt, model, fetched, fetchCalls,
                    retryDelays, probeTrace >>
    /\ UNCHANGED << probeCalls, modelWrites >>
    /\ UNCHANGED << connVars, statVars >>

\* After the loop: modelStatus = "failed"
BgFail ==
    /\ bg = "fail"
    /\ modelStatus' = "failed"
    /\ bg' = "done"
    /\ UNCHANGED << ollamaEnabled, ollamaModel, modelReady, modelNeverReady >>
    /\ UNCHANGED << attempt, testAttempt, model, fetched, fetchCalls,
                    retryDelays, probeTrace >>
    /\ UNCHANGED << probeCalls, modelWrites >>
    /\ UNCHANGED << connVars, statVars >>

checkModelReady ==
    \/ BgStart \/ BgStoreNever \/ BgLoop \/ BgRetrySleep \/ BgFetchStart
    \/ BgFetchCall \/ BgSetModel \/ BgTestStart \/ BgProbe \/ BgProbeSleep
    \/ BgSetReady \/ BgStoreReady \/ BgFail

\* ------------------------------------------------------ upstream streaming

\* One line of the streaming response body: whether it is a JSON object at
\* all, which of the fields "response" and "done" it carries, and their
\* values.
Chunk(text, done) ==
    [json |-> TRUE, has |-> { "response", "done" }, response |-> text,
     done |-> done]

\* A line that is no JSON.
Garbage == [json |-> FALSE, has |-> {}, response |-> "", done |-> FALSE]

\* A JSON object without the two fields, such as {"error": "..."}.
ErrObj == [json |-> TRUE, has |-> {}, response |-> "", done |-> FALSE]

\* json.Unmarshal into an OllamaStreamResponse that drops the text.
UnmarshalNoText(line) ==
    [ok |-> line.json, Response |-> "",
     Done |-> IF "done" \in line.has THEN line.done ELSE FALSE]

\* json.Unmarshal(scanner.Bytes(), &result): an error for a line that is no
\* JSON; a field the object lacks keeps its zero value.
Unmarshal(line) ==
    [ok |-> line.json,
     Response |-> IF "response" \in line.has THEN line.response ELSE "",
     Done |-> IF "done" \in line.has THEN line.done ELSE FALSE]

\* The lines the bodies of the relay specification are made of.
Lines ==
    { Garbage, Chunk("Hel", FALSE), Chunk("lo", FALSE), Chunk("", TRUE) }

\* All sequences over S of length at most n.
SeqsUpTo(S, n) == UNION { [1..k -> S] : k \in 0..n }

\* A response of the streaming POST /api/generate: a transport error, or a
\* status code with a body.
Response(failed, code, body) == [err |-> failed, code |-> code, body |-> body]

TransportError == Response(TRUE, 0, <<>>)

\* The responses the system specification draws from.
SampleResponses ==
    { TransportError,
      Response(FALSE, 500, << ErrObj >>),
      Response(FALSE, StatusOK, << Chunk("Yo", TRUE) >>) }

\* The responses the relay specification draws from.
AllResponses ==
    { TransportError, Response(FALSE, 500, << ErrObj >>) }
    \cup { Response(FALSE, StatusOK, b) : b \in SeqsUpTo(Lines, MaxLines) }

\* --------------------------------------------------------- handleWebSocket

NoLine == Garbage

\* One conn.WriteMessage call: its text, whether it succeeded, and the
\* upstream line it forwards (0 for a message that is no chunk).
Written(text, ok, line) == [text |-> text, ok |-> ok, line |-> line]

\* The branch on modelReady with its test inverted.
AfterLoadReadyInverted(flag) == IF flag THEN "sendWait" ELSE "relay"

\* The branch on modelNeverReady with its test inverted.
AfterLoadNeverInverted(flag) == IF ~flag THEN "sendNoAI" ELSE "loadReady"

\* if modelNeverReady.Load() { ... continue }
AfterLoadNever(flag) == IF flag THEN "sendNoAI" ELSE "loadReady"

\* if !modelReady.Load() { ... continue }; streamOllamaResponse(...)
AfterLoadReady(flag) == IF ~flag THEN "sendWait" ELSE "relay"

\* upgrader.Upgrade succeeded: the handler enters its read loop.
HConnect(c) ==
    /\ pc[c] = "none"
    /\ pc' = [pc EXCEPT ![c] = "idle"]
    /\ UNCHANGED << msg, statusAtRead, branch, out, saved, upstream, pos, cur,
                    fullResponse, reqModel >>
    /\ UNCHANGED << respCode, scanErr >>
    /\ UNCHANGED << sharedVars, bgVars, statVars >>

\* conn.ReadMessage() fails: break, conn.Close(). The handler's locals and
\* the record of its last message go with it.
HReadErr(c) ==
    /\ pc[c] = "idle"
    /\ pc' = [pc EXCEPT ![c] = "none"]
    /\ msg' = [msg EXCEPT ![c] = ""]
    /\ statusAtRead' = [statusAtRead EXCEPT ![c] = ""]
    /\ branch' = [branch EXCEPT ![c] = "none"]
    /\ out' = [out EXCEPT ![c] = <<>>]
    /\ saved' = [saved EXCEPT ![c] = <<>>]
    /\ upstream' = [upstream EXCEPT ![c] = <<>>]
    /\ pos' = [pos EXCEPT ![c] = 0]
    /\ cur' = [cur EXCEPT ![c] = Unmarshal(NoLine)]
    /\ fullResponse' = [fullResponse EXCEPT ![c] = ""]
    /\ reqModel' = [reqModel EXCEPT ![c] = ""]
    /\ respCode' = [respCode EXCEPT ![c] = 0]
    /\ scanErr' = [scanErr EXCEPT ![c] = FALSE]
    /\ UNCHANGED << sharedVars, bgVars, statVars >>

\* The next message read while the relay of the last one is still running.
HReadWhileBusy(c) ==
    /\ pc[c] \in { "idle", "scan", "write", "save" }
    /\ \E m \in Msgs :
         /\ msg' = [msg EXCEPT ![c] = m]
         /\ saved' = [saved EXCEPT ![c] = << << "User", m >> >>]
    /\ pc' = [pc EXCEPT ![c] = "loadNever"]
    /\ statusAtRead' = [statusAtRead EXCEPT ![c] = TerminalTag(modelStatus)]
    /\ branch' = [branch EXCEPT ![c] = "none"]
    /\ out' = [out EXCEPT ![c] = <<>>]
    /\ upstream' = [upstream EXCEPT ![c] = <<>>]
    /\ pos' = [pos EXCEPT ![c] = 0]
    /\ cur' = [cur EXCEPT ![c] = Unmarshal(NoLine)]
    /\ fullResponse' = [fullResponse EXCEPT ![c] = ""]
    /\ reqModel' = [reqModel EXCEPT ![c] = ""]
    /\ respCode' = [respCode EXCEPT ![c] = 0]
    /\ scanErr' = [scanErr EXCEPT ![c] = FALSE]
    /\ UNCHANGED << sharedVars, bgVars, statVars >>

\* conn.ReadMessage() returns a message; saveMessage("User", msg).
HRead(c) ==
    /\ pc[c] = "idle"
    /\ \E m \in Msgs :
         /\ msg' = [msg EXCEPT ![c] = m]
         /\ saved' = [saved EXCEPT ![c] = << << "User", m >> >>]
    /\ pc' = [pc EXCEPT ![c] = "loadNever"]
    /\ statusAtRead' = [statusAtRead EXCEPT ![c] = TerminalTag(modelStatus)]
    /\ branch' = [branch EXCEPT ![c] = "none"]
    /\ out' = [out EXCEPT ![c] = <<>>]
    /\ upstream' = [upstream EXCEPT ![c] = <<>>]
    /\ pos' = [pos EXCEPT ![c] = 0]
    /\ cur' = [cur EXCEPT ![c] = Unmarshal(NoLine)]
    /\ fullResponse' = [fullResponse EXCEPT ![c] = ""]
    /\ reqModel' = [reqModel EXCEPT ![c] = ""]
    /\ respCode' = [respCode EXCEPT ![c] = 0]
    /\ scanErr' = [scanErr EXCEPT ![c] = FALSE]
    /\ UNCHANGED << sharedVars, bgVars, statVars >>

\* modelNeverReady.Load()
HLoadNever(c) ==
    /\ pc[c] = "loadNever"
    /\ pc' = [pc EXCEPT ![c] = AfterLoadNever(modelNeverReady)]
    /\ UNCHANGED << msg, statusAtRead, branch, out, saved, upstream, pos, cur,
                    fullResponse, reqModel >>
    /\ UNCHANGED << respCode, scanErr >>
    /\ UNCHANGED << sharedVars, bgVars, statVars >>

\* modelReady.Load()
HLoadReady(c) ==
    /\ pc[c] = "loadReady"
    /\ pc' = [pc EXCEPT ![c] = AfterLoadReady(modelReady)]
    /\ UNCHANGED << msg, statusAtRead, branch, out, saved, upstream, pos, cur,
                    fullResponse, reqModel >>
    /\ UNCHANGED << respCode, scanErr >>
    /\ UNCHANGED << sharedVars, bgVars, statVars >>

\* The "no AI" branch: a random table entry is written (the error of the
\* write is only logged) and saved.
HSendNoAI(c) ==
    /\ pc[c] = "sendNoAI"
    /\ \E i \in 1..Len(noAIMessages), ok \in BOOLEAN :
         /\ out' = [out EXCEPT ![c] = Append(@, Written(noAIMessages[i], ok, 0))]
         /\ saved' = [saved EXCEPT ![c] = Append(@, << "AI", noAIMessages[i] >>)]
    /\ branch' = [branch EXCEPT ![c] = "noai"]
    /\ pc' = [pc EXCEPT ![c] = "idle"]
    /\ UNCHANGED << msg, statusAtRead, upstream, pos, cur, fullResponse,
                    reqModel >>
    /\ UNCHANGED << respCode, scanErr >>
    /\ UNCHANGED << sharedVars, bgVars, statVars >>

\* The "still loading" branch, likewise with the waiting table.
HSendWait(c) ==
    /\ pc[c] = "sendWait"
    /\ \E i \in 1..Len(waitingMessages), ok \in BOOLEAN :
         /\ out' = [out EXCEPT ![c] = Append(@, Written(waitingMessages[i], ok, 0))]
         /\ saved' = [saved EXCEPT ![c] = Append(@, << "AI", waitingMessages[i] >>)]
    /\ branch' = [branch EXCEPT ![c] = "wait"]
    /\ pc' = [pc EXCEPT ![c] = "idle"]
    /\ UNCHANGED << msg, statusAtRead, upstream, pos, cur, fullResponse,
                    reqModel >>
    /\ UNCHANGED << respCode, scanErr >>
    /\ UNCHANGED << sharedVars, bgVars, statVars >>

\* ---------------------------------------------------- streamOllamaResponse

\* fullResponse with the new text put in front.
AccumulatePrepend(full, text) == text \o full

\* fullResponse += result.Response
Accumulate(full, text) == full \o text

\* The request is built with the current ollamaModel and posted. A transport
\* error is answered with one error message and the function returns; any
\* response (whatever its status code) has its body scanned.
RPost(c, resps) ==
    /\ pc[c] = "relay"
    /\ branch' = [branch EXCEPT ![c] = "relay"]
    /\ reqModel' = [reqModel EXCEPT ![c] = ollamaModel]
    /\ \E resp \in resps :
         IF resp.err
         THEN /\ \E ok \in BOOLEAN :
                   out' = [out EXCEPT ![c] =
                             Append(@, Written("Error processing request", ok, 0))]
              /\ pc' = [pc EXCEPT ![c] = "idle"]
              /\ UNCHANGED << upstream, pos, fullResponse, respCode >>
         ELSE /\ upstream' = [upstream EXCEPT ![c] = resp.body]
              /\ respCode' = [respCode EXCEPT ![c] = resp.code]
              /\ pos' = [pos EXCEPT ![c] = 0]
              /\ fullResponse' = [fullResponse EXCEPT ![c] = ""]
              /\ pc' = [pc EXCEPT ![c] = "scan"]
              /\ UNCHANGED out
    /\ UNCHANGED << msg, statusAtRead, saved, cur >>
    /\ UNCHANGED scanErr
    /\ UNCHANGED << sharedVars, bgVars, statVars >>

\* The loop given up at a line that does not parse.
PcAfterUnmarshalAborts(result) == IF result.ok THEN "write" ELSE "save"

\* if err := json.Unmarshal(...); err != nil { continue }
PcAfterUnmarshal(result) == IF result.ok THEN "write" ELSE "scan"

\* scanner.Scan() and json.Unmarshal: the next line is read; a line that
\* does not parse is skipped; at the end of the body the loop ends.
RScan(c) ==
    /\ pc[c] = "scan"
    /\ IF pos[c] < Len(upstream[c])
       THEN LET result == Unmarshal(upstream[c][pos[c] + 1]) IN
              /\ pos' = [pos EXCEPT ![c] = @ + 1]
              /\ cur' = IF result.ok THEN [cur EXCEPT ![c] = result] ELSE cur
              /\ pc' = [pc EXCEPT ![c] = PcAfterUnmarshal(result)]
       ELSE /\ pc' = [pc EXCEPT ![c] = "save"]
            /\ UNCHANGED << pos, cur >>
    /\ UNCHANGED << msg, statusAtRead, branch, out, saved, upstream,
                    fullResponse, reqModel >>
    /\ UNCHANGED << respCode, scanErr >>
    /\ UNCHANGED << sharedVars, bgVars, statVars >>

\* scanner.Scan() returns false on a read error: the loop ends early.
RScanErr(c) ==
    /\ pc[c] = "scan"
    /\ pos[c] < Len(upstream[c])
    /\ pc' = [pc EXCEPT ![c] = "save"]
    /\ UNCHANGED << msg, statusAtRead, branch, out, saved, upstream, pos, cur,
                    fullResponse, reqModel >>
    /\ scanErr' = [scanErr EXCEPT ![c] = TRUE]
    /\ UNCHANGED respCode
    /\ UNCHANGED << sharedVars, bgVars, statVars >>

\* The loop never ending on a done chunk.
LoopEndsNever(result) == FALSE

\* if result.Done { break }
LoopEnds(result) == result.Done

\* The text accumulated before the result of the write is looked at.
FullAfterWriteUnchecked(ok, full, text) == Accumulate(full, text)

\* if err := conn.WriteMessage(...); err != nil { break }
\* fullResponse += result.Response
FullAfterWrite(ok, full, text) == IF ok THEN Accumulate(full, text) ELSE full

\* The loop going on to the next line after a failed write.
PcAfterWriteContinues(ok, result) ==
    IF ok /\ LoopEnds(result) THEN "save" ELSE "scan"

\* Where the loop goes after the write: out of it on a failed write and on
\* a done chunk, to the next scanner.Scan() otherwise.
PcAfterWrite(ok, result) ==
    IF ~ok THEN "save" ELSE IF LoopEnds(result) THEN "save" ELSE "scan"

\* conn.WriteMessage(result.Response): on error break; else the text is
\* accumulated and the loop ends if result.Done.
RWrite(c) ==
    /\ pc[c] = "write"
    /\ \E ok \in BOOLEAN :
         /\ out' = [out EXCEPT ![c] =
                      Append(@, Written(cur[c].Response, ok, pos[c]))]
         /\ fullResponse' = [fullResponse EXCEPT ![c] =
                                FullAfterWrite(ok, @, cur[c].Response)]
         /\ pc' = [pc EXCEPT ![c] = PcAfterWrite(ok, cur[c])]
    /\ UNCHANGED << msg, statusAtRead, branch, saved, upstream, pos, cur,
                    reqModel >>
    /\ UNCHANGED << respCode, scanErr >>
    /\ UNCHANGED << sharedVars, bgVars, statVars >>

\* The save of the full text with the model name cleared after the call.
RSaveClearsModel(c) ==
    /\ pc[c] = "save"
    /\ saved' = [saved EXCEPT ![c] = Append(@, << "AI", fullResponse[c] >>)]
    /\ pc' = [pc EXCEPT ![c] = "idle"]
    /\ ollamaModel' = ""
    /\ UNCHANGED << msg, statusAtRead, branch, out, upstream, pos, cur,
                    fullResponse, reqModel >>
    /\ UNCHANGED << respCode, scanErr >>
    /\ UNCHANGED << ollamaEnabled, modelReady, modelStatus, modelNeverReady >>
    /\ UNCHANGED << bgVars, statVars >>

\* saveMessage("AI", fullResponse); return
RSave(c) ==
    /\ pc[c] = "save"
    /\ saved' = [saved EXCEPT ![c] = Append(@, << "AI", fullResponse[c] >>)]
    /\ pc' = [pc EXCEPT ![c] = "idle"]
    /\ UNCHANGED << msg, statusAtRead, branch, out, upstream, pos, cur,
                    fullResponse, reqModel >>
    /\ UNCHANGED << respCode, scanErr >>
    /\ UNCHANGED << sharedVars, bgVars, statVars >>

streamOllamaResponse(c, resps) ==
    \/ RPost(c, resps) \/ RScan(c) \/ RScanErr(c) \/ RWrite(c) \/ RSave(c)

handleWebSocket(c, resps) ==
    \/ HConnect(c) \/ HReadErr(c) \/ HRead(c) \/ HLoadNever(c)
    \/ HLoadReady(c) \/ HSendNoAI(c) \/ HSendWait(c)
    \/ streamOllamaResponse(c, resps)

\* ---------------------------------------------------------- getModelStatus

SnapFields == { "ready", "status", "model" }

NoSnap == [ready |-> FALSE, status |-> "", model |-> ""]

\* A request for /api/model-status arrives.
SBegin ==
    /\ spc = {}
    /\ spc' = SnapFields
    /\ snap' = NoSnap
    /\ UNCHANGED << sharedVars, bgVars, connVars >>

\* The fields of the response in the order of the composite literal.
SnapOrder == << "ready", "status", "model" >>

\* The first field of the literal that is still to be read.
NextField(rem) ==
    SnapOrder[CHOOSE i \in 1..Len(SnapOrder) :
                /\ SnapOrder[i] \in rem
                /\ \A j \in 1..(i - 1) : SnapOrder[j] \notin rem]

\* modelReady.Load(), then modelStatus, then ollamaModel is read into the
\* response, one read per step. The Load is the only call of the literal
\* and its first operand, so it comes before the two plain reads whether
\* the operands are evaluated left to right or the calls first; the two
\* plain reads are not synchronised with the background task's writes.
SRead ==
    /\ spc # {}
    /\ LET f == NextField(spc) IN
         /\ spc' = spc \ { f }
         /\ snap' = CASE f = "ready" -> [snap EXCEPT !.ready = modelReady]
                      [] f = "status" -> [snap EXCEPT !.status = modelStatus]
                      [] f = "model" -> [snap EXCEPT !.model = ollamaModel]
    /\ UNCHANGED << sharedVars, bgVars, connVars >>

getModelStatus == SBegin \/ SRead

\* ---------------------------------------------------------- specifications

InitShared ==
    /\ ollamaEnabled \in BOOLEAN
    /\ ollamaModel = ""
    /\ modelReady = FALSE
    /\ modelStatus = "initializing"
    /\ modelNeverReady = FALSE

InitBg ==
    /\ bg = "start"
    /\ attempt = 1
    /\ testAttempt = 1
    /\ model = ""
    /\ fetched = <<>>
    /\ fetchCalls = 0
    /\ retryDelays = 0
    /\ probeTrace = <<>>
    /\ probeCalls = 0
    /\ modelWrites = 0

InitConns ==
    /\ pc = [c \in Conns |-> "none"]
    /\ msg = [c \in Conns |-> ""]
    /\ statusAtRead = [c \in Conns |-> ""]
    /\ branch = [c \in Conns |-> "none"]
    /\ out = [c \in Conns |-> <<>>]
    /\ saved = [c \in Conns |-> <<>>]
    /\ upstream = [c \in Conns |-> <<>>]
    /\ pos = [c \in Conns |-> 0]
    /\ cur = [c \in Conns |-> Unmarshal(NoLine)]
    /\ fullResponse = [c \in Conns |-> ""]
    /\ reqModel = [c \in Conns |-> ""]
    /\ respCode = [c \in Conns |-> 0]
    /\ scanErr = [c \in Conns |-> FALSE]

InitStatus ==
    /\ spc = {}
    /\ snap = NoSnap

\* The process after main has set its globals and started checkModelReady.
Init == InitShared /\ InitBg /\ InitConns /\ InitStatus

\* The background task and the connection handlers.
Next ==
    \/ checkModelReady
    \/ \E c \in Conns : handleWebSocket(c, SampleResponses)

Spec == Init /\ [][Next]_vars

\* The background task and the status endpoint.
NextStatus == checkModelReady \/ getModelStatus

SpecStatus == Init /\ [][NextStatus]_vars

\* One connection whose handler is about to call streamOllamaResponse: the
\* background task has reached Ready with model "m1" and returned.
InitRelay ==
    /\ ollamaEnabled = TRUE
    /\ ollamaModel = "m1"
    /\ modelReady = TRUE
    /\ modelStatus = "ready"
    /\ modelNeverReady = FALSE
    /\ bg = "done"
    /\ attempt = 1
    /\ testAttempt = 1
    /\ model = "m1"
    /\ fetched = << "m1" >>
    /\ fetchCalls = 1
    /\ retryDelays = 0
    /\ probeTrace = << "ok" >>
    /\ probeCalls = 1
    /\ modelWrites = 1
    /\ InitConns
    /\ InitStatus

RelayConn == "c1"

NextRelay ==
    \/ HConnect(RelayConn) \/ HReadErr(RelayConn) \/ HRead(RelayConn)
    \/ HLoadNever(RelayConn) \/ HLoadReady(RelayConn)
    \/ streamOllamaResponse(RelayConn, AllResponses)

SpecRelay == InitRelay /\ [][NextRelay]_vars

\* The background task, one connection handler and the status endpoint.
NextFrame ==
    \/ checkModelReady
    \/ handleWebSocket(RelayConn, SampleResponses)
    \/ getModelStatus

SpecFrame == Init /\ [][NextFrame]_vars

\* The program with the background goroutine scheduled again and again:
\* every call and every sleep of checkModelReady returns.
SpecFair == Spec /\ WF_vars(checkModelReady)

\* ------------------------------------------------------------------ claims

\* The handler of c has finished the message it read and waits for the next.
Handled(c) == pc[c] = "idle" /\ branch[c] # "none"

\* The handler of c is inside streamOllamaResponse.
InRelay(c) == pc[c] \in { "relay", "scan", "write", "save" }

\* C1: a streaming generation call is issued for a client message only while
\* the readiness state is Ready: whenever a handler is about to call, is
\* inside or has gone through streamOllamaResponse for its message,
\* modelStatus is "ready" (and the flag the handler branched on is set).
C1_GenerationOnlyWhenReady ==
    \A c \in Conns :
      (InRelay(c) \/ branch[c] = "relay") =>
         (modelStatus = "ready" /\ modelReady)

\* A handler has issued the generation call while the state is Ready.
C1_Witness ==
    \E c \in Conns :
      pc[c] = "scan" /\ branch[c] = "relay" /\ modelStatus = "ready"

\* C2: once modelStatus is "ready", "failed" or "disabled" no step of the
\* background task or of a handler changes it.
C2_TerminalNeverLeft ==
    [][(modelStatus \in TerminalTags) => (modelStatus' = modelStatus)]_vars

\* A terminal tag was in place when a handler read a message, and the
\* handler has since gone through all its steps for it.
C2_Witness ==
    \E c \in Conns :
      /\ Handled(c)
      /\ statusAtRead[c] \in TerminalTags
      /\ modelStatus = statusAtRead[c]

\* C3 as claimed: while the state is not Ready (Disabled included) a handled
\* message has exactly one outbound message, from the waiting table, and no
\* relay.
C3_Original ==
    \A c \in Conns :
      modelStatus # "ready" =>
         /\ ~InRelay(c)
         /\ Len(out[c]) <= 1
         /\ Handled(c) =>
              /\ Len(out[c]) = 1
              /\ out[c][1].text \in Range(waitingMessages)
              /\ branch[c] # "relay"

\* C3 as amended: the same while the state is neither Ready nor Disabled
\* (Initializing, the fetch and probe phases, retrying, Failed).
C3_WaitingWhileNotReady ==
    \A c \in Conns :
      modelStatus \notin { "ready", "disabled" } =>
         /\ ~InRelay(c)
         /\ Len(out[c]) <= 1
         /\ Handled(c) =>
              /\ Len(out[c]) = 1
              /\ out[c][1].text \in Range(waitingMessages)
              /\ branch[c] = "wait"

\* A message read after the state became Failed has been answered.
C3_Witness ==
    \E c \in Conns :
      /\ Handled(c)
      /\ statusAtRead[c] = "failed"
      /\ branch[c] = "wait"
      /\ Len(out[c]) = 1

\* C4 as claimed: Disabled is never followed by Ready, and a message read
\* once the state is Disabled is answered from the unavailable table, never
\* from the waiting table and never by the relay.
C4_Original ==
    /\ modelStatus = "disabled" => ~modelReady
    /\ \A c \in Conns :
         statusAtRead[c] = "disabled" =>
            /\ ~InRelay(c)
            /\ Handled(c) =>
                 /\ branch[c] = "noai"
                 /\ Len(out[c]) = 1
                 /\ out[c][1].text \in Range(noAIMessages)

\* C5 as claimed, read in the states that favour it most, those where the
\* background task has returned: modelNeverReady is true iff the state is
\* Disabled or Failed, and a message read in Failed is answered from the
\* unavailable table.
C5_Original ==
    bg = "done" =>
       /\ modelNeverReady <=> modelStatus \in { "disabled", "failed" }
       /\ \A c \in Conns :
            (statusAtRead[c] = "failed" /\ Handled(c)) =>
               /\ branch[c] = "noai"
               /\ out[c][1].text \in Range(noAIMessages)

\* C5 as amended: modelNeverReady is true only in Disabled, and is true in
\* Disabled once the background task has returned; in Failed it is false,
\* and a message read in Failed gets exactly one message of the waiting
\* table and no relay.
C5_NeverReadyOnlyWhenDisabled ==
    /\ modelNeverReady => modelStatus = "disabled"
    /\ (bg = "done" /\ modelStatus = "disabled") => modelNeverReady
    /\ modelStatus = "failed" => ~modelNeverReady
    /\ \A c \in Conns :
         (statusAtRead[c] = "failed" /\ Handled(c)) =>
            /\ branch[c] = "wait"
            /\ Len(out[c]) = 1
            /\ out[c][1].text \in Range(waitingMessages)

\* The retry ceiling is exhausted, the state is Failed, and a message read
\* afterwards has been answered.
C5_Witness ==
    /\ modelStatus = "failed"
    /\ attempt = maxRetries + 1
    /\ \E c \in Conns : statusAtRead[c] = "failed" /\ Handled(c)

\* C6 as claimed: in every state a concurrent reader can observe,
\* modelReady is true iff modelStatus is "ready".
C6_Original == modelReady <=> modelStatus = "ready"

\* The prober's call/sleep trace: calls at the odd places, sleeps at the
\* even ones, at most maxTestRetries calls, and only the last call may
\* have succeeded.
ProbeTraceShape ==
    /\ Len(probeTrace) <= 2 * maxTestRetries - 1
    /\ \A i \in 1..Len(probeTrace) :
         IF i % 2 = 0
         THEN probeTrace[i] = "sleep"
         ELSE IF i < Len(probeTrace)
         THEN probeTrace[i] \in FailureKinds
         ELSE probeTrace[i] \in FailureKinds \cup { "ok" }

\* testModelGeneration has just returned its terminal failure.
ProbeFailed == bg = "loop" /\ modelStatus \in ProbeErrorTags

\* C7: a probe whose attempts all fail makes exactly maxTestRetries calls
\* and maxTestRetries - 1 sleeps, each sleep between two calls, before it
\* returns the terminal failure.
C7_ProbeCallsAndDelays ==
    /\ ProbeTraceShape
    /\ ProbeFailed =>
         /\ Len(probeTrace) = 2 * maxTestRetries - 1
         /\ Cardinality({ i \in 1..Len(probeTrace) :
                            probeTrace[i] \in FailureKinds }) = maxTestRetries
         /\ Cardinality({ i \in 1..Len(probeTrace) :
                            probeTrace[i] = "sleep" }) = maxTestRetries - 1
         /\ testAttempt = maxTestRetries

\* A probe has failed terminally on a mix of failure kinds.
C7_Witness ==
    /\ ProbeFailed
    /\ probeTrace[1] # probeTrace[Len(probeTrace)]

\* C8: when the listing returns a non-empty list and the probe of its first
\* entry m succeeds on attempt k after k-1 failures, there were exactly k
\* probe calls, one listing call per cycle and none after, the state is
\* Ready, ollamaModel is m, and modelReady is true once the task returns.
C8_FirstModelReadyAfterK ==
    modelStatus = "ready" =>
       /\ fetched # <<>>
       /\ ollamaModel = fetched[1]
       /\ ProbeTraceShape
       /\ Len(probeTrace) = 2 * testAttempt - 1
       /\ probeTrace[Len(probeTrace)] = "ok"
       /\ fetchCalls = attempt
       /\ bg \in { "storeReady", "done" }
       /\ bg = "done" => modelReady

\* The listing returned two models, the probe of the first one succeeded on
\* its second attempt, and the task has returned.
C8_Witness ==
    /\ bg = "done"
    /\ modelReady
    /\ fetched = << "m2", "m1" >>
    /\ ollamaModel = "m2"
    /\ testAttempt = 2
    /\ probeTrace[1] \in FailureKinds

\* The relay of c has received a response and scans (or has scanned) its
\* body.
Streaming(c) ==
    /\ branch[c] = "relay"
    /\ pc[c] \in { "scan", "write", "save" } \/ Len(saved[c]) = 2

\* The text of an upstream line that is a JSON object.
LineText(line) == IF "response" \in line.has THEN line.response ELSE ""

\* The texts the sink has accepted.
SinkTexts(c) ==
    LET got == SelectSeq(out[c], LAMBDA w : w.ok)
    IN  [j \in 1..Len(got) |-> got[j].text]

\* C9: the messages one relay call writes are an order-preserving
\* subsequence of the upstream chunks: each write carries the text of one
\* parsed line already read, the lines written strictly increase (nothing
\* reordered, duplicated or merged), and a chunk is written before the next
\* line is read.
C9_RelayOrder ==
    \A c \in Conns :
      Streaming(c) =>
         /\ \A j \in 1..Len(out[c]) :
              /\ out[c][j].line \in 1..pos[c]
              /\ upstream[c][out[c][j].line].json
              /\ out[c][j].text = LineText(upstream[c][out[c][j].line])
         /\ \A j, k \in 1..Len(out[c]) :
              j < k => out[c][j].line < out[c][k].line
         /\ \A i \in 1..pos[c] :
              (upstream[c][i].json /\ (i < pos[c] \/ pc[c] # "write")) =>
                 \E j \in 1..Len(out[c]) : out[c][j].line = i

\* A relay call has ended after writing chunks from both sides of a line
\* that does not parse.
C9_Witness ==
    \E c \in Conns :
      /\ Streaming(c)
      /\ pc[c] = "idle"
      /\ Len(out[c]) >= 2
      /\ \E i \in 1..Len(upstream[c]) :
           /\ ~upstream[c][i].json
           /\ out[c][1].line < i
           /\ i < out[c][2].line

\* The body of the claim's example.
HelloBody ==
    << Chunk("Hel", FALSE), Chunk("lo", FALSE), Chunk("", TRUE) >>

\* The relay of c has gone through HelloBody to its end, every write
\* accepted, and has returned.
HelloRelayed(c) ==
    /\ Streaming(c)
    /\ pc[c] = "idle"
    /\ upstream[c] = HelloBody
    /\ pos[c] = Len(HelloBody)
    /\ \A j \in 1..Len(out[c]) : out[c][j].ok

\* C10 as claimed: for the lines Hel, lo and the empty done line the sink
\* receives exactly "Hel", "lo", and the full text is "Hello".
C10_Original ==
    \A c \in Conns :
      HelloRelayed(c) =>
         /\ SinkTexts(c) = << "Hel", "lo" >>
         /\ fullResponse[c] = "Hello"

\* C10 as amended: the sink receives "Hel", "lo" and then the empty text of
\* the done line, three messages in all, and the full text is "Hello".
C10_HelloExample ==
    \A c \in Conns :
      HelloRelayed(c) =>
         /\ SinkTexts(c) = << "Hel", "lo", "" >>
         /\ fullResponse[c] = "Hello"
         /\ saved[c][2] = << "AI", "Hello" >>

\* The example has been relayed to its end.
C10_Witness == \E c \in Conns : HelloRelayed(c)

\* The texts of a sequence put together in order.
RECURSIVE Concat(_)
Concat(texts) ==
    IF texts = <<>> THEN "" ELSE Head(texts) \o Concat(Tail(texts))

\* The texts of the JSON lines of a body, up to and including the first one
\* whose done field is true, or to the end of the body.
RECURSIVE ChunkTexts(_)
ChunkTexts(body) ==
    IF body = <<>> THEN <<>>
    ELSE IF ~Head(body).json THEN ChunkTexts(Tail(body))
    ELSE IF "done" \in Head(body).has /\ Head(body).done
    THEN << LineText(Head(body)) >>
    ELSE << LineText(Head(body)) >> \o ChunkTexts(Tail(body))

\* streamOllamaResponse has scanned a body for the message of c, has called
\* saveMessage and has returned.
RelayDone(c) == branch[c] = "relay" /\ pc[c] = "idle" /\ Len(saved[c]) = 2

\* Every write of the relay of c was accepted by the sink.
AllAccepted(c) == \A j \in 1..Len(out[c]) : out[c][j].ok

\* C11 as claimed, for the bodies that were read without a read error: the
\* full text handed to persistence is the concatenation of the texts of all
\* parsed chunks up to and including the first done chunk (or to the end of
\* the stream), and is the concatenation of the texts the sink accepted.
C11_Original ==
    \A c \in Conns :
      (RelayDone(c) /\ ~scanErr[c]) =>
         /\ saved[c][2] = << "AI", Concat(ChunkTexts(upstream[c])) >>
         /\ saved[c][2] = << "AI", Concat(SinkTexts(c)) >>

\* C11 as amended: the full text, while it is accumulated and when it is
\* handed to persistence, is the concatenation of exactly the texts the sink
\* accepted; it is the concatenation of all parsed chunks up to the first
\* done chunk or the end of the stream when no write failed and the body
\* was read without a read error.
C11_FullTextIsAcceptedTexts ==
    \A c \in Conns :
      /\ Streaming(c) => fullResponse[c] = Concat(SinkTexts(c))
      /\ RelayDone(c) =>
            /\ saved[c][2] = << "AI", Concat(SinkTexts(c)) >>
            /\ (AllAccepted(c) /\ ~scanErr[c]) =>
                  saved[c][2] = << "AI", Concat(ChunkTexts(upstream[c])) >>

\* A relay has ended on a failed write after an accepted chunk: the text
\* handed to persistence is the accepted one only.
C11_Witness ==
    \E c \in Conns :
      /\ RelayDone(c)
      /\ Len(out[c]) = 2
      /\ out[c][1].ok /\ out[c][1].text = "Hel"
      /\ ~out[c][2].ok /\ out[c][2].text = "lo"
      /\ saved[c][2] = << "AI", "Hel" >>

\* C12: a line that does not parse is skipped and the loop goes on: no write
\* carries such a line, the loop does not end at one, and when the body was
\* read without a read error and every write was accepted the sink has
\* received, in order, exactly the texts of the valid chunks up to the first
\* done chunk, those before and those after a malformed line alike.
C12_MalformedLineSkipped ==
    \A c \in Conns :
      Streaming(c) =>
         /\ \A j \in 1..Len(out[c]) : upstream[c][out[c][j].line].json
         /\ (pc[c] \in { "save", "idle" } /\ AllAccepted(c) /\ ~scanErr[c]) =>
               /\ \/ pos[c] = Len(upstream[c])
                  \/ /\ pos[c] \in 1..Len(upstream[c])
                     /\ upstream[c][pos[c]].json
                     /\ upstream[c][pos[c]].done
               /\ SinkTexts(c) = ChunkTexts(upstream[c])

\* A relay has ended after a body with a malformed line between two valid
\* chunks: both chunks reached the sink.
C12_Witness ==
    \E c \in Conns :
      /\ RelayDone(c)
      /\ upstream[c] = << Chunk("Hel", FALSE), Garbage, Chunk("lo", FALSE) >>
      /\ SinkTexts(c) = << "Hel", "lo" >>
      /\ saved[c][2] = << "AI", "Hello" >>

\* C13: when every cycle fails, checkModelReady runs exactly maxRetries
\* cycles (one listing call each, a delay before each but the first), then
\* sets "failed" and returns; once the tag is "failed" no listing or probe
\* call is made and modelReady stays false.
C13_FailedAfterMaxRetries ==
    [][/\ (modelStatus' = "failed") =>
            /\ bg' = "done"
            /\ attempt' = maxRetries + 1
            /\ fetchCalls' = maxRetries
            /\ retryDelays' = maxRetries - 1
            /\ probeCalls' <= maxRetries * maxTestRetries
            /\ ~modelReady'
       /\ (modelStatus = "failed") =>
            /\ fetchCalls' = fetchCalls
            /\ probeCalls' = probeCalls
            /\ modelStatus' = "failed"]_vars

\* The task has failed after cycles whose listing succeeded and whose probe
\* used up all its attempts, and a handler has moved since.
C13_Witness ==
    /\ modelStatus = "failed"
    /\ bg = "done"
    /\ fetchCalls = maxRetries
    /\ probeCalls = maxRetries * maxTestRetries
    /\ \E c \in Conns : statusAtRead[c] = "failed" /\ pc[c] = "loadReady"

\* C14: with ollamaEnabled false the task goes from "initializing" straight
\* to "disabled" and returns after storing modelNeverReady: no listing
\* call, no probe call, no retry delay, no model name, no other tag.
C14_DisabledDirectly ==
    ~ollamaEnabled =>
       /\ modelStatus = (IF bg = "start" THEN "initializing" ELSE "disabled")
       /\ bg \in { "start", "storeNever", "done" }
       /\ fetchCalls = 0
       /\ probeCalls = 0
       /\ retryDelays = 0
       /\ attempt = 1
       /\ ollamaModel = ""
       /\ ~modelReady
       /\ modelNeverReady <=> bg = "done"

\* The integration is disabled and the task has returned; a message read
\* afterwards has been answered.
C14_Witness ==
    /\ ~ollamaEnabled
    /\ bg = "done"
    /\ modelStatus = "disabled"
    /\ fetchCalls = 0
    /\ \E c \in Conns :
         statusAtRead[c] = "disabled" /\ Handled(c) /\ branch[c] = "noai"

\* C15 as claimed: for every message a handler has gone through, the "User"
\* message was saved and after it an "AI" message (the waiting text, the
\* unavailable text or the relayed full text), whether the relay succeeded,
\* failed on its initial upstream call or was cut short.
C15_Original ==
    \A c \in Conns :
      Handled(c) =>
         /\ Len(saved[c]) = 2
         /\ saved[c][1] = << "User", msg[c] >>
         /\ saved[c][2][1] = "AI"

\* C16: no step of a connection handler, of the relay or of the status
\* endpoint changes modelStatus, modelReady, modelNeverReady or ollamaModel
\* (or ollamaEnabled): every step that changes one of them is a step of the
\* background task.
C16_OnlyBackgroundWrites ==
    [][/\ (connVars' # connVars \/ statVars' # statVars) =>
            UNCHANGED sharedVars
       /\ (sharedVars' # sharedVars) => (bg' # bg)]_vars

\* The handler has relayed a message to its end and the status endpoint has
\* answered, with the shared state as the background task left it.
C16_Witness ==
    /\ RelayDone(RelayConn)
    /\ spc = {}
    /\ snap.status = "ready"
    /\ modelStatus = "ready" /\ modelReady /\ ollamaModel # ""

\* C17 as claimed, for the responses that are read without a read error:
\* when the upstream call fails at its start, with a transport error or with
\* a status other than success, the relay forwards no line of the upstream
\* body and reports the failure as one message, "Error processing request".
C17_Original ==
    \A c \in Conns :
      (Handled(c) /\ branch[c] = "relay" /\ respCode[c] # StatusOK
         /\ ~scanErr[c]) =>
         /\ Len(out[c]) = 1
         /\ out[c][1].text = "Error processing request"
         /\ out[c][1].line = 0

\* An upstream line that parses and whose done field is true.
DoneLine(line) == line.json /\ "done" \in line.has /\ line.done

\* C18: the loop ends at the first parsed done chunk: no line read before
\* the current one is a done chunk, the loop is never back at the scanner
\* after one, and once the done chunk is written it is the last write, at
\* the last line read, with the full text ending in its text.
C18_StopsAtFirstDone ==
    \A c \in Conns :
      Streaming(c) =>
         /\ \A i \in 1..(pos[c] - 1) : ~DoneLine(upstream[c][i])
         /\ (pos[c] >= 1 /\ DoneLine(upstream[c][pos[c]])) =>
               /\ pc[c] \in { "write", "save", "idle" }
               /\ pc[c] # "write" =>
                     /\ Len(out[c]) >= 1
                     /\ out[c][Len(out[c])].line = pos[c]
                     /\ out[c][Len(out[c])].text =
                           LineText(upstream[c][pos[c]])

\* A relay has ended at a done chunk that is not the last line of the body:
\* the lines after it were never read.
C18_Witness ==
    \E c \in Conns :
      /\ RelayDone(c)
      /\ AllAccepted(c)
      /\ pos[c] \in 1..(Len(upstream[c]) - 1)
      /\ DoneLine(upstream[c][pos[c]])
      /\ upstream[c][Len(upstream[c])] = Chunk("lo", FALSE)
      /\ saved[c][2] = << "AI", "Hel" >>

\* C19: a failed write to the sink stops the relay at once: it is the last
\* write (no later chunk, no retry), no further line is read, its text is
\* not in the full text, and the relay saves the text accumulated so far
\* and returns to the handler, which is back at its read.
C19_WriteFailureStops ==
    \A c \in Conns :
      Streaming(c) =>
         \A j \in 1..Len(out[c]) :
           ~out[c][j].ok =>
              /\ j = Len(out[c])
              /\ pc[c] \in { "save", "idle" }
              /\ pos[c] = out[c][j].line
              /\ fullResponse[c] =
                    Concat([k \in 1..(j - 1) |-> out[c][k].text])
              /\ pc[c] = "idle" =>
                    saved[c] = << << "User", msg[c] >>,
                                  << "AI", fullResponse[c] >> >>

\* The first write of a relay failed while the body had more chunks: the
\* relay has returned with nothing else written and the empty text saved.
C19_Witness ==
    \E c \in Conns :
      /\ RelayDone(c)
      /\ Len(upstream[c]) = 3
      /\ upstream[c][2] = Chunk("lo", FALSE)
      /\ Len(out[c]) = 1
      /\ ~out[c][1].ok /\ out[c][1].text = "Hel"
      /\ saved[c][2] = << "AI", "" >>

\* C20 as claimed: ollamaModel is written exactly once over the run, when
\* the readiness state becomes Ready, and is empty in every state whose
\* readiness is not Ready.
C20_Original ==
    /\ modelStatus # "ready" => ollamaModel = ""
    /\ modelWrites <= 1

\* C20 as amended: ollamaModel is empty until the first listing succeeds;
\* it is written once in each cycle whose listing succeeded, right after the
\* listing (tag "model_found") and before that cycle's probe, with the first
\* name listed; nothing else changes it, so it keeps its value through the
\* probe, the retries and Failed; and it is never written once the tag is
\* "ready".
C20_ModelWrittenAfterEachListing ==
    [][/\ modelWrites' <= fetchCalls'
       /\ modelWrites' <= maxRetries
       /\ (modelWrites' = 0) => (ollamaModel' = "")
       /\ (modelWrites' # modelWrites) =>
            /\ modelWrites' = modelWrites + 1
            /\ modelStatus = "model_found"
            /\ probeTrace = <<>>
            /\ ollamaModel' = fetched[1]
       /\ (ollamaModel' # ollamaModel) => (modelWrites' # modelWrites)
       /\ (modelStatus = "ready") =>
            (ollamaModel' = ollamaModel /\ modelWrites' = modelWrites)]_vars

\* The task has failed after writing the model name in each of its cycles:
\* the name is in place while the state is Failed.
C20_Witness ==
    /\ modelStatus = "failed"
    /\ modelWrites = maxRetries
    /\ ollamaModel # ""
    /\ ollamaModel = fetched[1]

\* s is an initial part of t.
IsPrefix(s, t) == Len(s) <= Len(t) /\ \A i \in 1..Len(s) : s[i] = t[i]

\* Everything the message of c causes has happened: one table message sent
\* and saved, or the relay returned after its save, or the relay returned
\* on the transport error after its one error message.
MessageComplete(c) ==
    \/ /\ branch[c] \in { "wait", "noai" }
       /\ Len(out[c]) = 1
       /\ saved[c] = << << "User", msg[c] >>, << "AI", out[c][1].text >> >>
    \/ /\ branch[c] = "relay"
       /\ Len(saved[c]) = 2
       /\ saved[c][1] = << "User", msg[c] >>
    \/ /\ branch[c] = "relay"
       /\ respCode[c] = 0
       /\ saved[c] = << << "User", msg[c] >> >>
       /\ Len(out[c]) = 1

\* C21: a connection handles one message at a time, in the order read: a
\* message is read only with the handler back at its read and, if the
\* connection had a message before, with every write and save of that
\* message done; while a message is handled its writes and saves only
\* grow and its text stays; and the writes and saves of a connection change
\* only in steps of its own handler, whatever the other connections and the
\* background task do.
C21_OneMessageAtATime ==
    [][\A c \in Conns :
         /\ (pc'[c] = "loadNever" /\ pc[c] # "loadNever") =>
              /\ pc[c] = "idle"
              /\ (msg[c] # "") => MessageComplete(c)
         /\ (pc[c] \notin { "none", "idle" }) =>
              /\ msg'[c] = msg[c]
              /\ IsPrefix(out[c], out'[c])
              /\ IsPrefix(saved[c], saved'[c])
         /\ (out'[c] # out[c] \/ saved'[c] # saved[c]) => (pc'[c] # pc[c])
         /\ (pc'[c] = "idle" /\ pc[c] \notin { "none", "idle" }) =>
              MessageComplete(c)']_vars

\* A connection has handled a message to its end and is back at its read
\* while the other connection is in the middle of the relay of its own
\* message.
C21_Witness ==
    \E c, d \in Conns :
      /\ c # d
      /\ Handled(c) /\ MessageComplete(c) /\ branch[c] = "relay"
      /\ Len(out[c]) = 1 /\ out[c][1].text = "Yo"
      /\ pc[d] = "write"
      /\ Len(saved[d]) = 1

\* The retry tags of the cycles 2..maxRetries.
RetryTags == { RetryTag(n) : n \in 2..maxRetries }

\* C22: "checking_models" is entered for cycle n >= 2 from the tag
\* "retry_n" with n-1 delays taken, and for cycle 1 from "starting" with
\* none; a delay is taken only under a retry tag, one per cycle after the
\* first; "failed" is entered from the error tag of the last cycle with no
\* delay in between; so with c cycles run there are c-1 delays.
C22_RetryTagAndDelayPerCycle ==
    [][/\ (modelStatus' = "checking_models" /\ modelStatus # "checking_models") =>
            /\ retryDelays = attempt - 1
            /\ fetchCalls = attempt - 1
            /\ modelStatus =
                  (IF attempt = 1 THEN "starting" ELSE RetryTag(attempt))
       /\ (retryDelays' # retryDelays) =>
            /\ retryDelays' = retryDelays + 1
            /\ attempt \in 2..maxRetries
            /\ retryDelays = attempt - 2
            /\ modelStatus = RetryTag(attempt)
            /\ modelStatus' = modelStatus
       /\ (modelStatus' = "failed" /\ modelStatus # "failed") =>
            /\ modelStatus \notin RetryTags
            /\ retryDelays' = retryDelays
            /\ retryDelays' = fetchCalls' - 1
       /\ (bg' = "done" /\ fetchCalls' >= 1) => (retryDelays' = fetchCalls' - 1)
       /\ (fetchCalls' = 0) => (retryDelays' = 0)]_vars

\* The last cycle has entered "checking_models" after its retry tag and
\* delay.
C22_Witness ==
    /\ modelStatus = "checking_models"
    /\ attempt = maxRetries
    /\ retryDelays = maxRetries - 1
    /\ fetchCalls = maxRetries - 1

\* The number of generation calls in a probe trace.
Calls(trace) == Cardinality({ i \in 1..Len(trace) : trace[i] # "sleep" })

\* C23: while the probe runs the tag stays "testing_generation": a failed
\* attempt with attempts remaining changes no tag; an error tag of the probe
\* is written only by the failure of the last attempt (maxTestRetries calls
\* made), and it is the tag of that attempt's kind of failure:
\* "error_generation" for a transport or status failure,
\* "error_parsing_response" for a body that does not parse,
\* "error_no_response" for a body without the response field.
C23_ErrorTagOfLastAttempt ==
    [][/\ (probeTrace' # probeTrace /\ probeTrace' # <<>>
            /\ Calls(probeTrace') < maxTestRetries) =>
            /\ modelStatus = "testing_generation"
            /\ modelStatus' = "testing_generation"
       /\ (modelStatus' \in ProbeErrorTags /\ modelStatus' # modelStatus) =>
            /\ modelStatus = "testing_generation"
            /\ Calls(probeTrace') = maxTestRetries
            /\ Calls(probeTrace) = maxTestRetries - 1
            /\ LET last == probeTrace'[Len(probeTrace')] IN
                 /\ last \in { "conn", "status" } =>
                       modelStatus' = "error_generation"
                 /\ last = "parse" => modelStatus' = "error_parsing_response"
                 /\ last = "nocontent" => modelStatus' = "error_no_response"
                 /\ last \in FailureKinds
       /\ (Calls(probeTrace') = maxTestRetries /\ probeTrace' # probeTrace
            /\ probeTrace'[Len(probeTrace')] \in FailureKinds) =>
            modelStatus' \in ProbeErrorTags]_vars

\* A probe whose first attempt failed on the transport and whose last
\* attempt returned a body without the response field has published the
\* no-content tag.
C23_Witness ==
    /\ modelStatus = "error_no_response"
    /\ Len(probeTrace) = 2 * maxTestRetries - 1
    /\ probeTrace[1] = "conn"
    /\ probeTrace[Len(probeTrace)] = "nocontent"

\* C24: with every upstream call and every delay returning, checkModelReady
\* reaches "ready", "failed" or "disabled" and returns, whatever the listing
\* and probe calls answer; it makes at most maxRetries listing calls and at
\* most maxRetries * maxTestRetries probe calls.
C24_TerminatesWithinCeilings ==
    /\ [](/\ fetchCalls <= maxRetries
          /\ probeCalls <= maxRetries * maxTestRetries
          /\ probeCalls <= fetchCalls * maxTestRetries)
    /\ <>[](bg = "done" /\ modelStatus \in TerminalTags)

\* The task has returned in Failed with both ceilings used up to the last
\* call.
C24_Witness ==
    /\ bg = "done"
    /\ modelStatus = "failed"
    /\ fetchCalls = maxRetries
    /\ probeCalls = maxRetries * maxTestRetries
    /\ retryDelays = maxRetries - 1

\* C25: modelReady and modelNeverReady are never both true, and neither is
\* ever set back to false once it is true.
C25_FlagsExclusiveAndMonotonic ==
    /\ [](~(modelReady /\ modelNeverReady))
    /\ [][/\ modelReady => modelReady'
          /\ modelNeverReady => modelNeverReady']_vars

\* modelReady was set after a retry, a handler has loaded both flags and is
\* about to relay, and modelNeverReady is still false.
C25_Witness ==
    /\ modelReady /\ ~modelNeverReady
    /\ retryDelays >= 1
    /\ \E c \in Conns : pc[c] = "relay"

\* The last call of the probe trace succeeded.
ProbePassed == probeTrace # <<>> /\ probeTrace[Len(probeTrace)] = "ok"

\* C26: from the moment modelReady is true, ollamaModel is the model whose
\* probe succeeded (the first name of the last listing) and no step changes
\* it; every relay request carries that name, never the empty name and
\* never the name of a cycle that failed; and a status response whose ready
\* field is true has the status "ready" and that same model name.
C26_RelayCarriesProbedModel ==
    /\ [](/\ modelReady =>
               /\ ProbePassed
               /\ ollamaModel = fetched[1]
               /\ ollamaModel # ""
          /\ \A c \in Conns :
               branch[c] = "relay" =>
                  /\ ProbePassed
                  /\ reqModel[c] = fetched[1]
                  /\ reqModel[c] = ollamaModel
                  /\ reqModel[c] # ""
          /\ snap.ready =>
               /\ "status" \notin spc => snap.status = "ready"
               /\ "model" \notin spc =>
                     (snap.model = ollamaModel /\ snap.model = fetched[1]))
    /\ [][modelReady => (ollamaModel' = ollamaModel)]_vars

\* The model name was written in two cycles, the second probe succeeded; a
\* relay request has been sent with that name and a complete status
\* response says ready with the same name.
C26_Witness ==
    /\ modelReady
    /\ modelWrites = 2
    /\ branch[RelayConn] = "relay"
    /\ reqModel[RelayConn] = ollamaModel
    /\ spc = {}
    /\ snap = [ready |-> TRUE, status |-> "ready", model |-> ollamaModel]

====
